---- MODULE Spec2Model ----
(***************************************************************************)
(* Model of x2misskey's XStreamClient (x-client.ts): the reconnect loop of *)
(* startStream, the connection life cycle of _connectStream with its       *)
(* "data" / "error" / "close" / "end" handlers, the rate-limit remediation *)
(* call, the backoff computation and stop().                               *)
(*                                                                         *)
(* Node runs the code on one event loop: every action below is one run of  *)
(* a continuation from the point where it is resumed up to its next await. *)
(***************************************************************************)
EXTENDS Integers, Sequences, FiniteSets, TLC

\* ------------------------------------------------------------------ bounds
\* largest number of consecutive faults (no successful connection in
\* between) the environment produces
MaxFaults == 8
\* largest number of chunks the transport delivers during one run
MaxChunks == 2
\* pages of one conversation
MaxPages == 3

\* ------------------------------------------------------- program constants
DefaultMaxRetries == 10
DefaultInitialDelayMs == 1000
DefaultMaxDelayMs == 60000
DefaultBackoffMultiplier == 2
RateLimitStatus == 429

\* the value of this.stream when it refers to no stream
Undefined == "undefined"

\* ------------------------------------------------------------------ inputs
\* config.stream.reconnect as handed to the constructor
ReconnectConfigs ==
    [ enabled : {FALSE}, maxRetries : {-1, 0, 3} ]
    \cup
    [ maxRetries : {-1, 0, 3} ]
    \cup
    [ enabled           : {TRUE},
      maxRetries        : {-1, 2},
      initialDelayMs    : {500},
      maxDelayMs        : {4000},
      backoffMultiplier : {3} ]

\* HTTP status carried by a rejected stream request; 0 is a fault without
\* a response (connection reset, timeout)
FaultStatuses == {0, 401, 429, 503}

\* Tokens of the response body.  "D1" "D2" are the two halves of the JSON
\* text of a record with a data member, "H" is the JSON text of a record
\* without one, "X" is text that is not JSON, "\r" is white space and
\* "\n" the line separator.
NL == "\n"
CR == "\r"
ChunkSet ==
    { <<"D1", "D2", NL>>,
      <<"D1", "D2", NL, "D1", "D2", NL>>,
      <<"X", NL, "D1", "D2", NL>>,
      <<"H", NL, CR, NL, "D1", "D2">>,
      <<CR, NL>>,
      <<"D1">>,
      <<"D2", NL>> }

\* --------------------------------------------------------------- variables
VARIABLES
    reconnectConfig, \* this.config.stream.reconnect || {}
    pc,              \* where startStream is suspended
    shouldStop,      \* this.shouldStop
    retryCount,      \* this.retryCount
    stream,          \* this.stream: "undefined", or the state of the object it refers to
    conns,           \* number of open physical stream connections
    closePending,    \* destroy() was called, the "close" event is not yet emitted
    error,           \* the error caught by the catch of startStream
    thrown,          \* the error startStream rejected with
    delayMs,         \* argument of the pending _sleep
    killState,       \* DELETE /2/connections/all for the caught error
    handlers,        \* suspended runs of the "data" handler
    chunkNo,         \* chunks emitted so far
    started,         \* onMessage calls, in the order they were started
    wire,            \* history: the chunks emitted, in order (kept by SpecData)
    faults,          \* history: faults since the last successful connection
    everConnected,   \* history: some stream request succeeded
    stopAt,          \* history: pc at the first stop() of the run
    userMappings,    \* config.userMappings
    message,         \* the StreamMessage routeTweet was called with
    thread,          \* the posts the conversation lookup holds for the message
    rpc,             \* where routeTweet is suspended
    noteContent,     \* routeTweet: noteContent
    photoItems,      \* uploadMediaFiles: the photo items not yet uploaded
    fileIds,         \* uploadMediaFiles: fileIds
    calls,           \* history: calls made on the MisskeyClient for the message
    results,         \* history: what the uploadMediaFromUrl calls returned
    caught,          \* the error caught by the catch of routeTweet
    pages,           \* the pages the search endpoint holds for the conversation
    cpc,             \* where getConversationTweets is suspended
    allTweets,       \* getConversationTweets: allTweets
    nextToken,       \* getConversationTweets: nextToken, 0 for undefined
    requested,       \* history: the next_token of each page request, in order
    convError        \* the error caught by the catch of getConversationTweets

vars == << reconnectConfig, pc, shouldStop, retryCount, stream, conns,
           closePending, error, thrown, delayMs, killState, handlers,
           chunkNo, started, wire, faults, everConnected, stopAt,
           userMappings, message, thread, rpc, noteContent, photoItems,
           fileIds, calls, results, caught,
           pages, cpc, allTweets, nextToken, requested, convError >>

connVars == << pc, shouldStop, retryCount, stream, conns, closePending,
               error, thrown, delayMs, killState >>
dataVars == << handlers, chunkNo, started, wire >>
histVars == << faults, everConnected, stopAt >>
routerVars == << userMappings, message, thread, rpc, noteContent, photoItems,
                fileIds, calls, results, caught >>
streamVars == << reconnectConfig, connVars, dataVars, histVars >>
convVars == << pages, cpc, allTweets, nextToken, requested, convError >>

NoError == [status |-> -1, id |-> 0]

\* ------------------------------------------------------ policy (398..403)
Has(field) == field \in DOMAIN reconnectConfig
isReconnectEnabled == ~(Has("enabled") /\ reconnectConfig.enabled = FALSE)
maxRetries ==
    IF Has("maxRetries") THEN reconnectConfig.maxRetries ELSE DefaultMaxRetries
initialDelayMs ==
    IF Has("initialDelayMs") THEN reconnectConfig.initialDelayMs
    ELSE DefaultInitialDelayMs
maxDelayMs ==
    IF Has("maxDelayMs") THEN reconnectConfig.maxDelayMs ELSE DefaultMaxDelayMs
backoffMultiplier ==
    IF Has("backoffMultiplier") THEN reconnectConfig.backoffMultiplier
    ELSE DefaultBackoffMultiplier

\* ---------------------------------------------------------- pure functions
RECURSIVE Pow(_, _)
Pow(b, e) == IF e = 0 THEN 1 ELSE b * Pow(b, e - 1)

Min(a, b) == IF a < b THEN a ELSE b

\* variant: the delay grows linearly and is not capped
_calculateBackoffDelay_Linear(rc, initial, maxDelay, multiplier) ==
    initial * multiplier * (rc + 1)

\* _calculateBackoffDelay (543..551)
_calculateBackoffDelay(rc, initial, maxDelay, multiplier) ==
    Min(initial * Pow(multiplier, rc), maxDelay)

\* variant: every HTTP error status counts as a rate limit
_isRateLimitError_AnyStatus(err) == err.status >= 400

\* _isRateLimitError (526..529)
_isRateLimitError(err) == err.status = RateLimitStatus

\* String.prototype.split("\n"): the pieces between separators, empty
\* pieces included
RECURSIVE SplitFrom(_, _, _)
SplitFrom(s, i, cur) ==
    IF i > Len(s) THEN << cur >>
    ELSE IF s[i] = NL THEN << cur >> \o SplitFrom(s, i + 1, << >>)
    ELSE SplitFrom(s, i + 1, Append(cur, s[i]))
Split(s) == SplitFrom(s, 1, << >>)

\* the white space of String.prototype.trim and of \s
WhiteSpace == {" ", "\t", CR, NL}

\* String.prototype.trim: white space removed at both ends
RECURSIVE TrimLeft(_)
TrimLeft(l) ==
    IF l # << >> /\ Head(l) \in WhiteSpace THEN TrimLeft(Tail(l)) ELSE l
RECURSIVE TrimRight(_)
TrimRight(l) ==
    IF l # << >> /\ l[Len(l)] \in WhiteSpace
    THEN TrimRight(SubSeq(l, 1, Len(l) - 1)) ELSE l
Trim(l) == TrimRight(TrimLeft(l))

\* chunk.toString().split("\n").filter(line => line.trim())
Lines(chunk) == SelectSeq(Split(chunk), LAMBDA l : Trim(l) # << >>)

\* JSON.parse(line): "data" for a record with a data member, "nodata" for
\* a record without one, "SyntaxError" otherwise
JSONParse(l) ==
    IF Trim(l) = <<"D1", "D2">> THEN "data"
    ELSE IF Trim(l) = <<"H">> THEN "nodata"
    ELSE "SyntaxError"

\* variant: a line that fails to parse ends the loop
RECURSIVE RecordsFrom_AbortOnError(_, _, _)
RecordsFrom_AbortOnError(ls, k, i) ==
    IF i > Len(ls) THEN << >>
    ELSE IF JSONParse(ls[i]) = "data"
         THEN << <<k, i>> >> \o RecordsFrom_AbortOnError(ls, k, i + 1)
         ELSE IF JSONParse(ls[i]) = "SyntaxError" THEN << >>
         ELSE RecordsFrom_AbortOnError(ls, k, i + 1)

\* the records of chunk number k for which the loop of the "data" handler
\* reaches `await onMessage(message)`, each named by chunk and line number
RECURSIVE RecordsFrom(_, _, _)
RecordsFrom(ls, k, i) ==
    IF i > Len(ls) THEN << >>
    ELSE IF JSONParse(ls[i]) = "data"
         THEN << <<k, i>> >> \o RecordsFrom(ls, k, i + 1)
         ELSE RecordsFrom(ls, k, i + 1)
Records(chunk, k) == RecordsFrom(Lines(chunk), k, 1)

\* the onMessage calls that have started and not yet settled
inflight == { Head(handlers[h]) : h \in DOMAIN handlers }

\* ----------------------------------------------------------- router inputs
\* config.userMappings: the table of the README, a disabled entry beside
\* an enabled one, and a disabled entry followed by an enabled entry of
\* the same account
ExampleMappings == << [xUserId |-> "u1", enabled |-> TRUE] >>
MappingTables ==
    { ExampleMappings,
      << [xUserId |-> "u1", enabled |-> FALSE],
         [xUserId |-> "u2", enabled |-> TRUE] >>,
      << [xUserId |-> "u1", enabled |-> FALSE],
         [xUserId |-> "u1", enabled |-> TRUE] >> }

\* tokens of a post's text: two t.co links, words, white space and the
\* pieces of the HTML entities
UrlA == "https://t.co/a"
UrlB == "https://t.co/b"
TcoUrls == {UrlA, UrlB}
Texts ==
    { <<"see", " ", UrlA, " ", "now">>,
      <<"see", " ", UrlA>>,
      <<UrlA, " ", "and", " ", UrlA>>,
      <<"see", " ", UrlA, " ", UrlB>>,
      <<UrlA>>,
      <<"a", "&", "amp;", "lt;", "b">>,
      <<" ", "a", "&", "lt;", "b", "&", "amp;", "c", NL>> }

\* URL entities of the token UrlA, with and without the optional members
EntitiesA ==
    { [url |-> UrlA],
      [url |-> UrlA, expanded_url |-> "https://example.com/page"],
      [url |-> UrlA, display_url |-> "example.com/page"],
      [url |-> UrlA, expanded_url |-> "https://example.com/page",
                     display_url |-> "example.com/page"],
      [url |-> UrlA, expanded_url |-> "https://x.com/u1/status/t1/photo/1",
                     display_url |-> "pic.x.com/a", media_key |-> "m1"] }
EntityB ==
    [url |-> UrlB, expanded_url |-> "https://x.com/u1/status/t1/photo/1",
                   display_url |-> "pic.x.com/b", media_key |-> "m2"]
UrlLists ==
    { << >> }
    \cup { << e >> : e \in EntitiesA }
    \cup { << e, e >> : e \in EntitiesA }
    \cup { << e, EntityB >> : e \in EntitiesA }

Users == << [id |-> "u1", name |-> "User One", username |-> "one"] >>

\* messages that differ in the author
AuthorMessages ==
    { [data |-> [id |-> "t1", text |-> <<"hi">>]] }
    \cup
    { [data |-> [id |-> "t1", text |-> <<"hi">>, author_id |-> a],
       includes |-> [users |-> Users]] : a \in {"u1", "u2", "u3"} }

\* messages whose includes.users holds another account beside the author,
\* before or after it
OtherUser == [id |-> "u2", name |-> "User Two", username |-> "two"]
UserListMessages ==
    { [data |-> [id |-> "t1", text |-> <<"hi">>, author_id |-> "u1"],
       includes |-> [users |-> us]] :
         us \in { << OtherUser >> \o Users, Users \o << OtherUser >> } }

\* messages that differ in text, URL entities and attachments
TextMessages ==
    { [data |-> [id |-> "t1", text |-> t, author_id |-> "u1",
                 entities |-> [urls |-> us]],
       includes |-> [users |-> Users]] : t \in Texts, us \in UrlLists }
    \cup
    { [data |-> [id |-> "t1", text |-> t, author_id |-> "u1",
                 entities |-> [urls |-> us],
                 attachments |-> [media_keys |-> <<"m1">>]],
       includes |-> [users |-> Users]] : t \in Texts, us \in UrlLists }

\* messages that carry media
Mp4(rate, url) == [bit_rate |-> rate, content_type |-> "video/mp4", url |-> url]
Playlist == [content_type |-> "application/x-mpegURL", url |-> "https://video/pl.m3u8"]
MediaLists ==
    { << [media_key |-> "m1", type |-> "photo", url |-> "https://pbs/p1.jpg"] >>,
      << [media_key |-> "m1", type |-> "photo", url |-> "https://pbs/p1.jpg",
          alt_text |-> "alt"],
         [media_key |-> "m2", type |-> "video",
          variants |-> << Mp4(500, "https://video/500.mp4"), Playlist,
                          Mp4(1200, "https://video/1200.mp4") >>],
         [media_key |-> "m3", type |-> "photo", url |-> "https://pbs/p3.jpg"] >>,
      << [media_key |-> "m2", type |-> "video",
          variants |-> << Mp4(1200, "https://video/a.mp4"),
                          Mp4(1200, "https://video/b.mp4") >>] >>,
      << [media_key |-> "m2", type |-> "video", variants |-> << Playlist >>] >>,
      << [media_key |-> "m2", type |-> "animated_gif"] >> }
MediaMessages ==
    { [data |-> [id |-> "t1", text |-> <<"pic", " ", UrlB>>, author_id |-> "u1",
                 entities |-> [urls |-> << EntityB >>],
                 attachments |-> [media_keys |-> <<"m1">>],
                 possibly_sensitive |-> sens],
       includes |-> [users |-> Users, media |-> ms]] :
         ms \in MediaLists, sens \in BOOLEAN }

\* replies: a conversation id and a reference to the post replied to or
\* quoted
ReplyMessages ==
    { [data |-> [id |-> "t1", text |-> <<"hi">>, author_id |-> "u1",
                 conversation_id |-> "p2",
                 referenced_tweets |-> << [type |-> ty, id |-> "p1"] >>],
       includes |-> [users |-> Users]] : ty \in {"replied_to", "quoted"} }

\* what the conversation lookup can hold for a reply: posts p1 and p2 of
\* the conversation, by the author of the reply or by another account
Post(id, author, refs) ==
    [id |-> id, author_id |-> author, referenced_tweets |-> refs]
RepliedTo(id) == << [type |-> "replied_to", id |-> id] >>
Threads ==
    { {},
      { Post("p1", "u1", << >>) },
      { Post("p1", "u2", << >>) },
      { Post("p1", "u1", RepliedTo("p2")) },
      { Post("p1", "u1", RepliedTo("p2")), Post("p2", "u1", << >>) },
      { Post("p1", "u1", RepliedTo("p2")), Post("p2", "u2", << >>) },
      { Post("p2", "u2", << >>) } }

Messages ==
    AuthorMessages \cup UserListMessages \cup TextMessages \cup MediaMessages
    \cup ReplyMessages
ThreadsOf(m) == IF "conversation_id" \in DOMAIN m.data THEN Threads ELSE { {} }

NoMessage == [data |-> [id |-> "none", text |-> << >>]]

\* ids the drive assigns to uploaded files
FileIds == {"f1", "f2"}

\* ------------------------------------------------- config.ts (65..74)
\* Array.prototype.find: the index of the first entry that matches, 0 for
\* undefined
getAiMappingByXUserId(config, xUserId) ==
    LET S == { i \in DOMAIN config :
                 config[i].xUserId = xUserId /\ config[i].enabled } IN
    IF S = {} THEN 0 ELSE CHOOSE i \in S : \A j \in S : i <= j

getAllEnabledMappings(config) == SelectSeq(config, LAMBDA m : m.enabled)

\* ------------------------------------------------- router.ts (1..159)
\* the keys of this.misskeyClients after the constructor (15..19)
misskeyClients ==
    { getAllEnabledMappings(userMappings)[i].xUserId :
        i \in DOMAIN getAllEnabledMappings(userMappings) }

\* variant: entries are looked up and clients are built without regard to
\* the enabled flag
SkipReason_IgnoreEnabled(m) ==
    IF "author_id" \notin DOMAIN m.data THEN "no author_id"
    ELSE IF \A i \in DOMAIN userMappings :
              userMappings[i].xUserId # m.data.author_id THEN "unmapped"
    ELSE "none"

\* routeTweet (25..45): why the message is skipped, "none" if it is not
SkipReason(m) ==
    IF "author_id" \notin DOMAIN m.data THEN "no author_id"
    ELSE IF getAiMappingByXUserId(userMappings, m.data.author_id) = 0
         THEN "unmapped"
    ELSE IF m.data.author_id \notin misskeyClients THEN "no client"
    ELSE "none"

\* text.replace(/\s?https:\/\/t\.co\/[a-zA-Z0-9]+$/, ""): a t.co link at
\* the very end goes, with one white space before it
StripTrailingLink(text) ==
    IF text # << >> /\ text[Len(text)] \in TcoUrls
    THEN IF Len(text) >= 2 /\ text[Len(text) - 1] \in WhiteSpace
         THEN SubSeq(text, 1, Len(text) - 2)
         ELSE SubSeq(text, 1, Len(text) - 1)
    ELSE text

\* String.prototype.replaceAll(needle, repl), and replace with a global
\* pattern that is a literal: every match, scanning from the left, matches
\* not overlapping, the replacement not scanned again
RECURSIVE ReplaceAll(_, _, _)
ReplaceAll(text, needle, repl) ==
    IF Len(text) < Len(needle) THEN text
    ELSE IF SubSeq(text, 1, Len(needle)) = needle
         THEN repl \o ReplaceAll(SubSeq(text, Len(needle) + 1, Len(text)),
                                 needle, repl)
         ELSE << Head(text) >> \o ReplaceAll(Tail(text), needle, repl)

\* `[${displayUrl}](${expandedUrl})`
Link(label, target) == << "[", label, "](", target, ")" >>

\* url.display_url || url.expanded_url || url.url  (89)
DisplayOf(url) ==
    IF "display_url" \in DOMAIN url THEN url.display_url
    ELSE IF "expanded_url" \in DOMAIN url THEN url.expanded_url
    ELSE url.url
\* url.expanded_url || url.url  (90)
ExpandedOf(url) ==
    IF "expanded_url" \in DOMAIN url THEN url.expanded_url ELSE url.url

\* the loop over urls (87..96), from entry i on
RECURSIVE ReplaceUrls(_, _, _)
ReplaceUrls(text, urls, i) ==
    IF i > Len(urls) THEN text
    ELSE ReplaceUrls(ReplaceAll(text, << urls[i].url >>,
                                Link(DisplayOf(urls[i]), ExpandedOf(urls[i]))),
                     urls, i + 1)

\* .replace(/&amp;/g, "&").replace(/&lt;/g, "<").replace(/&gt;/g, ">")
Unescape(text) ==
    ReplaceAll(ReplaceAll(ReplaceAll(text, <<"&", "amp;">>, <<"&">>),
                          <<"&", "lt;">>, <<"<">>),
               <<"&", "gt;">>, <<">">>)

\* buildCleanTweetText (76..103)
buildCleanTweetText(text, urls, hasAttachments) ==
    LET stripped == IF hasAttachments THEN StripTrailingLink(text) ELSE text IN
    Unescape(Trim(ReplaceUrls(stripped, urls, 1)))

\* tweet.entities?.urls
UrlsOf(m) ==
    IF "entities" \in DOMAIN m.data /\ "urls" \in DOMAIN m.data.entities
    THEN m.data.entities.urls ELSE << >>

\* message.includes?.users?.[0]?.username || "unknown"  (49)
AuthorHandle(m) ==
    IF /\ "includes" \in DOMAIN m
       /\ "users" \in DOMAIN m.includes
       /\ m.includes.users # << >>
    THEN m.includes.users[1].username ELSE "unknown"

\* `\n\nOriginal: ?[${tweetUrl}](${tweetUrl})`  (50, 58)
OriginalLine(m) ==
    LET tweetUrl == << "https://x.com/", AuthorHandle(m), "/status/", m.data.id >> IN
    << NL, NL, "Original: ?[" >> \o tweetUrl \o << "](" >> \o tweetUrl \o << ")" >>

\* variant: a post whose cleaned text is empty gets no line added
NoteContent_OmitWhenEmpty(m) ==
    LET cleanedText == buildCleanTweetText(m.data.text, UrlsOf(m),
                                           "attachments" \in DOMAIN m.data) IN
    IF cleanedText = << >> THEN << >> ELSE cleanedText \o OriginalLine(m)

\* noteContent (52..58)
NoteContent(m) ==
    buildCleanTweetText(m.data.text, UrlsOf(m), "attachments" \in DOMAIN m.data)
    \o OriginalLine(m)

\* photoItems (110..113)
PhotoItems(m) ==
    IF "includes" \in DOMAIN m /\ "media" \in DOMAIN m.includes
    THEN SelectSeq(m.includes.media,
                   LAMBDA media : media.type = "photo" /\ "url" \in DOMAIN media)
    ELSE << >>

\* the call misskeyClient.uploadMediaFromUrl(media.url, uploadOptions)
UploadCall(media, isSensitive) ==
    [op |-> "uploadMediaFromUrl", url |-> media.url,
     options |-> IF "alt_text" \in DOMAIN media
                 THEN [isSensitive |-> isSensitive, altText |-> media.alt_text]
                 ELSE [isSensitive |-> isSensitive]]

\* the call misskeyClient.postNote(noteContent, {visibility, fileIds})
PostCall(content, ids) ==
    [op |-> "postNote", text |-> content,
     options |-> IF ids # << >>
                 THEN [visibility |-> "public", fileIds |-> ids]
                 ELSE [visibility |-> "public"]]

\* Boolean(tweet.possibly_sensitive)
IsSensitive(m) ==
    "possibly_sensitive" \in DOMAIN m.data /\ m.data.possibly_sensitive

\* ------------------------------------------------------------------- init
\* the XStreamClient after its constructor (384..393)
InitStream ==
    /\ pc = "idle"
    /\ shouldStop = FALSE
    /\ retryCount = 0
    /\ stream = Undefined
    /\ conns = 0
    /\ closePending = FALSE
    /\ error = NoError
    /\ thrown = NoError
    /\ delayMs = 0
    /\ killState = "none"
    /\ handlers = << >>
    /\ chunkNo = 0
    /\ started = << >>
    /\ wire = << >>
    /\ faults = 0
    /\ everConnected = FALSE
    /\ stopAt = "none"

\* the TweetRouter after its constructor (10..22), no message routed yet
InitRouter ==
    /\ message = NoMessage
    /\ thread = {}
    /\ rpc = "idle"
    /\ noteContent = << >>
    /\ photoItems = << >>
    /\ fileIds = << >>
    /\ calls = << >>
    /\ results = << >>
    /\ caught = "none"

\* no conversation lookup made yet
InitConversation ==
    /\ pages = << >>
    /\ cpc = "idle"
    /\ allTweets = << >>
    /\ nextToken = 0
    /\ requested = << >>
    /\ convError = "none"

Init ==
    /\ reconnectConfig \in ReconnectConfigs
    /\ userMappings = ExampleMappings
    /\ InitStream
    /\ InitRouter
    /\ InitConversation

\* ------------------------------------------------- startStream (395..453)
\* `while (!this.shouldStop)` followed by the call of _connectStream, which
\* runs up to `await this.client.get(...)`; stop is the value of shouldStop
\* when the condition is evaluated
LoopHead_IgnoreStop(stop) == "connecting"

LoopHead(stop) == IF stop THEN "returned" ELSE "connecting"

\* variant: one retry too many (`<=` for `<`)
RetryOrThrow_OffByOne(err) ==
    IF maxRetries = -1 \/ retryCount <= maxRetries
    THEN /\ delayMs' = _calculateBackoffDelay(retryCount, initialDelayMs,
                                              maxDelayMs, backoffMultiplier)
         /\ pc' = "sleeping"
         /\ thrown' = thrown
    ELSE /\ pc' = "raised"
         /\ thrown' = err
         /\ delayMs' = delayMs

\* variant: -1 is not treated as "unlimited"
RetryOrThrow_NoUnlimited(err) ==
    IF retryCount < maxRetries
    THEN /\ delayMs' = _calculateBackoffDelay(retryCount, initialDelayMs,
                                              maxDelayMs, backoffMultiplier)
         /\ pc' = "sleeping"
         /\ thrown' = thrown
    ELSE /\ pc' = "raised"
         /\ thrown' = err
         /\ delayMs' = delayMs

\* the statements of the catch block from `const shouldRetry` to
\* `await this._sleep(delayMs)`, for the caught error err
RetryOrThrow(err) ==
    IF maxRetries = -1 \/ retryCount < maxRetries
    THEN /\ delayMs' = _calculateBackoffDelay(retryCount, initialDelayMs,
                                              maxDelayMs, backoffMultiplier)
         /\ pc' = "sleeping"
         /\ thrown' = thrown
    ELSE /\ pc' = "raised"
         /\ thrown' = err
         /\ delayMs' = delayMs

\* the catch block of startStream entered with err, up to its first await
Catch(err) ==
    /\ error' = err
    /\ IF shouldStop
       THEN /\ pc' = "returned"
            /\ killState' = "none"
            /\ UNCHANGED << thrown, delayMs >>
       ELSE IF _isRateLimitError(err)
       THEN /\ pc' = "killing"
            /\ killState' = "pending"
            /\ UNCHANGED << thrown, delayMs >>
       ELSE /\ killState' = "none"
            /\ RetryOrThrow(err)

\* startStream up to the first `await this.client.get`
StartStream ==
    /\ pc = "idle"
    /\ shouldStop' = FALSE
    /\ retryCount' = 0
    /\ pc' = LoopHead(FALSE)
    /\ UNCHANGED << reconnectConfig, stream, conns, closePending, error,
                    thrown, delayMs, killState >>
    /\ UNCHANGED dataVars
    /\ UNCHANGED histVars
    /\ UNCHANGED routerVars
    /\ UNCHANGED convVars

\* variant: retryCount is not reset on connection
ConnectSuccess_NoReset ==
    /\ pc = "connecting"
    /\ stream' = "open"
    /\ conns' = conns + 1
    /\ pc' = "streaming"
    /\ faults' = 0
    /\ everConnected' = TRUE
    /\ UNCHANGED << reconnectConfig, shouldStop, retryCount, closePending,
                    error, thrown, delayMs, killState, stopAt >>
    /\ UNCHANGED << handlers, chunkNo, started, wire >>
    /\ UNCHANGED routerVars
    /\ UNCHANGED convVars

\* the stream request is answered with a response stream (477..481)
ConnectSuccess ==
    /\ pc = "connecting"
    /\ stream' = "open"
    /\ retryCount' = 0
    /\ conns' = conns + 1
    /\ pc' = "streaming"
    /\ faults' = 0
    /\ everConnected' = TRUE
    /\ UNCHANGED << reconnectConfig, shouldStop, closePending, error, thrown,
                    delayMs, killState, stopAt >>
    /\ UNCHANGED dataVars
    /\ UNCHANGED routerVars
    /\ UNCHANGED convVars

\* the stream request is rejected; the error passes through the catch of
\* _connectStream (519..523) into the catch of startStream
ConnectFail ==
    /\ pc = "connecting"
    /\ faults < MaxFaults
    /\ \E st \in FaultStatuses :
          Catch([status |-> st, id |-> faults + 1])
    /\ faults' = faults + 1
    /\ UNCHANGED << reconnectConfig, shouldStop, retryCount, stream, conns,
                    closePending, everConnected, stopAt >>
    /\ UNCHANGED dataVars
    /\ UNCHANGED routerVars
    /\ UNCHANGED convVars

\* variant: a failure of the DELETE is not caught and leaves startStream
KillDone_Propagate ==
    /\ pc = "killing"
    /\ \E ok \in BOOLEAN :
          /\ killState' = IF ok THEN "done" ELSE "failed"
          /\ IF ok
             THEN RetryOrThrow(error)
             ELSE /\ pc' = "raised"
                  /\ thrown' = [status |-> 403, id |-> 0]
                  /\ delayMs' = delayMs
    /\ UNCHANGED << reconnectConfig, shouldStop, retryCount, stream, conns,
                    closePending, error >>
    /\ UNCHANGED << handlers, chunkNo, started, wire >>
    /\ UNCHANGED << faults, everConnected, stopAt >>
    /\ UNCHANGED routerVars
    /\ UNCHANGED convVars

\* _killAllConnections settles: the DELETE succeeded, or failed and the
\* failure was logged (531..541)
KillDone ==
    /\ pc = "killing"
    /\ \E ok \in BOOLEAN : killState' = IF ok THEN "done" ELSE "failed"
    /\ RetryOrThrow(error)
    /\ UNCHANGED << reconnectConfig, shouldStop, retryCount, stream, conns,
                    closePending, error >>
    /\ UNCHANGED dataVars
    /\ UNCHANGED histVars
    /\ UNCHANGED routerVars
    /\ UNCHANGED convVars

\* variant: a retry is counted twice
SleepDone_CountTwice ==
    /\ pc = "sleeping"
    /\ retryCount' = retryCount + 2
    /\ pc' = LoopHead(shouldStop)
    /\ UNCHANGED << reconnectConfig, shouldStop, stream, conns, closePending,
                    error, thrown, delayMs, killState >>
    /\ UNCHANGED dataVars
    /\ UNCHANGED histVars
    /\ UNCHANGED routerVars
    /\ UNCHANGED convVars

\* the timer of _sleep fires (449..452)
SleepDone ==
    /\ pc = "sleeping"
    /\ retryCount' = retryCount + 1
    /\ pc' = LoopHead(shouldStop)
    /\ UNCHANGED << reconnectConfig, shouldStop, stream, conns, closePending,
                    error, thrown, delayMs, killState >>
    /\ UNCHANGED dataVars
    /\ UNCHANGED histVars
    /\ UNCHANGED routerVars
    /\ UNCHANGED convVars

\* variant: the loop goes on although reconnect is disabled
AfterConnectStream_AlwaysLoop == LoopHead(shouldStop)

\* _connectStream returned normally (418..422)
AfterConnectStream ==
    IF ~isReconnectEnabled THEN "returned" ELSE LoopHead(shouldStop)

\* variant: the promise is resolved while the stream is still open
StreamClose_StillOpen ==
    /\ pc = "streaming"
    /\ stream = "open"
    /\ pc' = IF ~isReconnectEnabled THEN "returned" ELSE LoopHead(shouldStop)
    /\ UNCHANGED << reconnectConfig, shouldStop, retryCount, stream, conns,
                    closePending, error, thrown, delayMs, killState >>
    /\ UNCHANGED << handlers, chunkNo, started, wire >>
    /\ UNCHANGED << faults, everConnected, stopAt >>
    /\ UNCHANGED routerVars
    /\ UNCHANGED convVars

\* "close" or "end" of a stream the remote side finished (509..517)
StreamClose ==
    /\ pc = "streaming"
    /\ stream = "open"
    /\ stream' = "closed"
    /\ conns' = conns - 1
    /\ pc' = AfterConnectStream
    /\ UNCHANGED << reconnectConfig, shouldStop, retryCount, closePending,
                    error, thrown, delayMs, killState >>
    /\ UNCHANGED dataVars
    /\ UNCHANGED histVars
    /\ UNCHANGED routerVars
    /\ UNCHANGED convVars

\* "close" of a stream that stop() destroyed (509..512)
DestroyedClose ==
    /\ pc = "streaming"
    /\ closePending
    /\ closePending' = FALSE
    /\ pc' = AfterConnectStream
    /\ UNCHANGED << reconnectConfig, shouldStop, retryCount, stream, conns,
                    error, thrown, delayMs, killState >>
    /\ UNCHANGED dataVars
    /\ UNCHANGED histVars
    /\ UNCHANGED routerVars
    /\ UNCHANGED convVars

\* "error" of the open stream (504..507): the promise rejects
StreamError ==
    /\ pc = "streaming"
    /\ stream = "open"
    /\ faults < MaxFaults
    /\ stream' = "closed"
    /\ conns' = conns - 1
    /\ Catch([status |-> 0, id |-> faults + 1])
    /\ faults' = faults + 1
    /\ UNCHANGED << reconnectConfig, shouldStop, retryCount, closePending,
                    everConnected, stopAt >>
    /\ UNCHANGED dataVars
    /\ UNCHANGED routerVars
    /\ UNCHANGED convVars

\* "data" (482..502) for one chunk: the handler runs up to its first
\* `await onMessage`
OnDataChunk(chunk) ==
    /\ pc = "streaming"
    /\ stream = "open"
    /\ chunkNo < MaxChunks
    /\ LET recs == Records(chunk, chunkNo + 1) IN
       IF recs = << >>
       THEN UNCHANGED << handlers, started >>
       ELSE /\ handlers' = Append(handlers, recs)
            /\ started' = Append(started, Head(recs))
    /\ chunkNo' = chunkNo + 1
    /\ UNCHANGED reconnectConfig
    /\ UNCHANGED connVars
    /\ UNCHANGED histVars
    /\ UNCHANGED routerVars
    /\ UNCHANGED convVars

\* "data" with any chunk
OnData ==
    /\ \E chunk \in ChunkSet : OnDataChunk(chunk)
    /\ UNCHANGED wire

\* "data" with any chunk, the chunk being recorded in the history
OnDataRecorded ==
    \E chunk \in ChunkSet :
        /\ OnDataChunk(chunk)
        /\ wire' = Append(wire, chunk)

\* the onMessage call of suspended handler h settles (fulfilled, or
\* rejected and logged at 499); the loop goes on to the next record
HandlerSettles(h) ==
    /\ h \in DOMAIN handlers
    /\ LET rest == Tail(handlers[h]) IN
       IF rest = << >>
       THEN /\ handlers' = [ i \in 1 .. Len(handlers) - 1 |->
                               IF i < h THEN handlers[i] ELSE handlers[i + 1] ]
            /\ started' = started
       ELSE /\ handlers' = [ handlers EXCEPT ![h] = rest ]
            /\ started' = Append(started, Head(rest))
    /\ UNCHANGED << reconnectConfig, chunkNo, wire >>
    /\ UNCHANGED connVars
    /\ UNCHANGED histVars

\* the onMessage call of any suspended handler settles
OnMessageDone ==
    /\ \E h \in DOMAIN handlers : HandlerSettles(h)
    /\ UNCHANGED routerVars
    /\ UNCHANGED convVars

\* variant: stop() only sets the flag and leaves the stream alone
Stop_FlagOnly ==
    /\ pc # "idle"
    /\ shouldStop' = TRUE
    /\ stopAt' = IF stopAt = "none" THEN pc ELSE stopAt
    /\ UNCHANGED << reconnectConfig, pc, retryCount, stream, conns,
                    closePending, error, thrown, delayMs, killState, faults,
                    everConnected >>
    /\ UNCHANGED << handlers, chunkNo, started, wire >>
    /\ UNCHANGED routerVars
    /\ UNCHANGED convVars

\* stop() (557..564)
Stop ==
    /\ pc # "idle"
    /\ shouldStop' = TRUE
    /\ IF stream # Undefined
       THEN /\ stream' = Undefined
            /\ IF stream = "open"
               THEN /\ conns' = conns - 1
                    /\ closePending' = TRUE
               ELSE UNCHANGED << conns, closePending >>
       ELSE UNCHANGED << stream, conns, closePending >>
    /\ stopAt' = IF stopAt = "none" THEN pc ELSE stopAt
    /\ UNCHANGED << reconnectConfig, pc, retryCount, error, thrown, delayMs,
                    killState, faults, everConnected >>
    /\ UNCHANGED dataVars
    /\ UNCHANGED routerVars
    /\ UNCHANGED convVars

\* ------------------------------------------------- routeTweet (24..74)
\* routeTweet is called with message m, t being what the conversation
\* lookup holds for it, and runs up to its first call of the MisskeyClient
RouteMessage(m, t) ==
    /\ rpc \in {"idle", "done"}
    /\ message' = m
    /\ thread' = t
    /\ fileIds' = << >>
    /\ results' = << >>
    /\ caught' = "none"
    /\ IF SkipReason(m) # "none"
       THEN /\ rpc' = "done"
            /\ noteContent' = << >>
            /\ photoItems' = << >>
            /\ calls' = << >>
       ELSE /\ noteContent' = NoteContent(m)
            /\ photoItems' = PhotoItems(m)
            /\ IF PhotoItems(m) = << >>
               THEN /\ rpc' = "posting"
                    /\ calls' = << PostCall(NoteContent(m), << >>) >>
               ELSE /\ rpc' = "uploading"
                    /\ calls' = << UploadCall(Head(PhotoItems(m)),
                                              IsSensitive(m)) >>
    /\ UNCHANGED userMappings
    /\ UNCHANGED streamVars
    /\ UNCHANGED convVars

\* routeTweet called with any message
RouteTweet ==
    \E m \in Messages : \E t \in ThreadsOf(m) : RouteMessage(m, t)

\* variant: a null result ends the uploads and the note is posted at once
UploadDone_AbortOnNull ==
    /\ rpc = "uploading"
    /\ \E fileId \in FileIds \cup {"null"} :
          LET ids == IF fileId # "null" THEN Append(fileIds, fileId) ELSE fileIds
              rest == IF fileId # "null" THEN Tail(photoItems) ELSE << >> IN
          /\ fileIds' = ids
          /\ results' = Append(results, fileId)
          /\ photoItems' = rest
          /\ IF rest = << >>
             THEN /\ rpc' = "posting"
                  /\ calls' = Append(calls, PostCall(noteContent, ids))
             ELSE /\ rpc' = "uploading"
                  /\ calls' = Append(calls, UploadCall(Head(rest),
                                                       IsSensitive(message)))
    /\ UNCHANGED << userMappings, message, thread, noteContent, caught >>
    /\ UNCHANGED streamVars
    /\ UNCHANGED convVars

\* uploadMediaFromUrl settles with a file id or, every failure being caught
\* inside it, with null (126..133); after the last photo the note is posted
\* (66..69)
UploadDone ==
    /\ rpc = "uploading"
    /\ \E fileId \in FileIds \cup {"null"} :
          LET ids == IF fileId # "null" THEN Append(fileIds, fileId) ELSE fileIds
              rest == Tail(photoItems) IN
          /\ fileIds' = ids
          /\ results' = Append(results, fileId)
          /\ photoItems' = rest
          /\ IF rest = << >>
             THEN /\ rpc' = "posting"
                  /\ calls' = Append(calls, PostCall(noteContent, ids))
             ELSE /\ rpc' = "uploading"
                  /\ calls' = Append(calls, UploadCall(Head(rest),
                                                       IsSensitive(message)))
    /\ UNCHANGED << userMappings, message, thread, noteContent, caught >>
    /\ UNCHANGED streamVars
    /\ UNCHANGED convVars

\* variant: a rejected postNote is called again
PostDone_Retry ==
    /\ rpc = "posting"
    /\ \E ok \in BOOLEAN :
          IF ok \/ caught # "none"
          THEN /\ rpc' = "done"
               /\ caught' = IF ok THEN caught ELSE "postNote"
               /\ calls' = calls
          ELSE /\ rpc' = "posting"
               /\ caught' = "postNote"
               /\ calls' = Append(calls, PostCall(noteContent, fileIds))
    /\ UNCHANGED << userMappings, message, thread, noteContent, photoItems,
                    fileIds, results >>
    /\ UNCHANGED streamVars
    /\ UNCHANGED convVars

\* variant: a rejected postNote rejects routeTweet
PostDone_Propagate ==
    /\ rpc = "posting"
    /\ \E ok \in BOOLEAN :
          /\ rpc' = IF ok THEN "done" ELSE "rejected"
          /\ caught' = "none"
    /\ UNCHANGED << userMappings, message, thread, noteContent, photoItems,
                    fileIds, calls, results >>
    /\ UNCHANGED streamVars
    /\ UNCHANGED convVars

\* postNote settles: fulfilled, or rejected, the error then being caught
\* and logged by the catch of routeTweet (70..73), which returns
PostDone ==
    /\ rpc = "posting"
    /\ \E ok \in BOOLEAN :
          /\ rpc' = "done"
          /\ caught' = IF ok THEN "none" ELSE "postNote"
    /\ UNCHANGED << userMappings, message, thread, noteContent, photoItems,
                    fileIds, calls, results >>
    /\ UNCHANGED streamVars
    /\ UNCHANGED convVars

\* ------------------------------------- index.ts (35..42): the onMessage handler
\* messages the stream delivers to an enabled account: text only, and with
\* a photo
StreamMessages ==
    { [data |-> [id |-> "t1", text |-> <<"hi">>, author_id |-> "u1"],
       includes |-> [users |-> Users]],
      [data |-> [id |-> "t1", text |-> <<"pic">>, author_id |-> "u1",
                 attachments |-> [media_keys |-> <<"m1">>]],
       includes |-> [users |-> Users,
                     media |-> << [media_key |-> "m1", type |-> "photo",
                                   url |-> "https://pbs/p1.jpg"] >>]] }

\* the handler of the oldest suspended run of the "data" listener calls
\* router.routeTweet(message); the router variables follow this call, the
\* calls of the other runs settle unobserved
RouteStarted ==
    /\ handlers # << >>
    /\ rpc = "idle"
    /\ \E m \in StreamMessages : RouteMessage(m, {})

\* routeTweet has returned: the onMessage call of the oldest run settles,
\* the router is idle again
OnMessageRouted ==
    /\ rpc = "done"
    /\ HandlerSettles(1)
    /\ message' = NoMessage
    /\ thread' = {}
    /\ rpc' = "idle"
    /\ noteContent' = << >>
    /\ photoItems' = << >>
    /\ fileIds' = << >>
    /\ calls' = << >>
    /\ results' = << >>
    /\ caught' = "none"
    /\ UNCHANGED userMappings
    /\ UNCHANGED convVars

\* the onMessage call of another run settles
OnMessageUnobserved ==
    /\ \E h \in DOMAIN handlers \ {1} : HandlerSettles(h)
    /\ UNCHANGED routerVars
    /\ UNCHANGED convVars

\* --------------------------------------- getConversationTweets (578..610)
\* response.data.data of one page: absent, or the posts of the page
PageBodies ==
    { [meta |-> "m"],
      [meta |-> "m", data |-> << "p1" >>],
      [meta |-> "m", data |-> << "p2", "p3" >>] }

\* what the search endpoint can hold for a conversation: one page or more
PageLists ==
    UNION { [1 .. n -> PageBodies] : n \in 1 .. MaxPages }

\* response.data.meta?.next_token of page k: pages but the last one carry
\* the token of the page that follows, 0 stands for no token
NextTokenOf(ps, k) == IF k < Len(ps) THEN k + 1 ELSE 0

\* the page a request with the given next_token is answered with
PageAt(token) == IF token = 0 THEN 1 ELSE token

\* response.data.data || []
TweetsOf(body) == IF "data" \in DOMAIN body THEN body.data ELSE << >>

\* getConversationTweets is called and sends the request of the first page
GetConversationTweets ==
    /\ cpc \in {"idle", "returned"}
    /\ \E ps \in PageLists : pages' = ps
    /\ allTweets' = << >>
    /\ nextToken' = 0
    /\ requested' = << 0 >>
    /\ convError' = "none"
    /\ cpc' = "fetching"
    /\ UNCHANGED streamVars
    /\ UNCHANGED routerVars

\* variant: the posts of the first page are returned, the token is ignored
PageFetched_FirstPageOnly ==
    /\ cpc = "fetching"
    /\ allTweets' = allTweets \o TweetsOf(pages[PageAt(nextToken)])
    /\ nextToken' = 0
    /\ cpc' = "returned"
    /\ UNCHANGED << pages, requested, convError >>
    /\ UNCHANGED streamVars
    /\ UNCHANGED routerVars

\* a page request is answered (587..602): its posts are added; with a
\* next_token the next page is requested, without one allTweets is returned
PageFetched ==
    /\ cpc = "fetching"
    /\ LET k == PageAt(nextToken) IN
       /\ allTweets' = allTweets \o TweetsOf(pages[k])
       /\ nextToken' = NextTokenOf(pages, k)
       /\ IF NextTokenOf(pages, k) # 0
          THEN /\ cpc' = "fetching"
               /\ requested' = Append(requested, NextTokenOf(pages, k))
          ELSE /\ cpc' = "returned"
               /\ requested' = requested
    /\ UNCHANGED << pages, convError >>
    /\ UNCHANGED streamVars
    /\ UNCHANGED routerVars

\* a page request fails (604..606): the error is logged and what was
\* gathered so far is returned
PageFailed ==
    /\ cpc = "fetching"
    /\ convError' = "request failed"
    /\ cpc' = "returned"
    /\ UNCHANGED << pages, allTweets, nextToken, requested >>
    /\ UNCHANGED streamVars
    /\ UNCHANGED routerVars

Next ==
    \/ StartStream
    \/ ConnectSuccess
    \/ ConnectFail
    \/ KillDone
    \/ SleepDone
    \/ StreamClose
    \/ DestroyedClose
    \/ StreamError
    \/ OnData
    \/ OnMessageDone
    \/ Stop

Spec == Init /\ [][Next]_vars

TypeOK ==
    /\ pc \in {"idle", "connecting", "streaming", "killing", "sleeping",
               "returned", "raised"}
    /\ shouldStop \in BOOLEAN
    /\ retryCount \in 0 .. MaxFaults
    /\ stream \in {Undefined, "open", "closed"}
    /\ conns \in 0 .. 1
    /\ closePending \in BOOLEAN
    /\ killState \in {"none", "pending", "done", "failed"}
    /\ chunkNo \in 0 .. MaxChunks
    /\ faults \in 0 .. MaxFaults

\* The stream client with one reconnect policy, the emitted chunks being
\* recorded.
InitData ==
    /\ Init
    /\ reconnectConfig = [maxRetries |-> 3]

NextData ==
    \/ StartStream
    \/ ConnectSuccess
    \/ ConnectFail
    \/ KillDone
    \/ SleepDone
    \/ StreamClose
    \/ DestroyedClose
    \/ StreamError
    \/ OnDataRecorded
    \/ OnMessageDone
    \/ Stop

SpecData == InitData /\ [][NextData]_vars

\* The router alone, under each mapping table: routeTweet is called for one
\* message after the other.
InitTables ==
    /\ reconnectConfig = [maxRetries |-> 3]
    /\ userMappings \in MappingTables
    /\ InitStream
    /\ InitRouter
    /\ InitConversation

NextRouter ==
    \/ RouteTweet
    \/ UploadDone
    \/ PostDone

SpecRouter == InitTables /\ [][NextRouter]_vars

\* The stream client feeding the router: the handler of index.ts routes
\* the records the stream delivers.
InitPipeline ==
    /\ reconnectConfig = [maxRetries |-> 3]
    /\ userMappings = ExampleMappings
    /\ InitStream
    /\ InitRouter
    /\ InitConversation

NextPipeline ==
    \/ StartStream
    \/ ConnectSuccess
    \/ ConnectFail
    \/ KillDone
    \/ SleepDone
    \/ StreamClose
    \/ DestroyedClose
    \/ StreamError
    \/ OnData
    \/ RouteStarted
    \/ UploadDone
    \/ PostDone
    \/ OnMessageRouted
    \/ OnMessageUnobserved
    \/ Stop

SpecPipeline == InitPipeline /\ [][NextPipeline]_vars

\* The conversation lookup alone, called time after time.
InitLookup ==
    /\ reconnectConfig = [maxRetries |-> 3]
    /\ userMappings = ExampleMappings
    /\ InitStream
    /\ InitRouter
    /\ InitConversation

NextLookup ==
    \/ GetConversationTweets
    \/ PageFetched
    \/ PageFailed

SpecLookup == InitLookup /\ [][NextLookup]_vars

\* Scheduling: a destroyed stream emits "close", timers fire, and the
\* requests of the axios instance settle within its timeout (386..392).
FairSpec ==
    /\ Spec
    /\ WF_vars(DestroyedClose)
    /\ WF_vars(SleepDone)
    /\ WF_vars(KillDone)
    /\ WF_vars(ConnectSuccess \/ ConnectFail)

\* ------------------------------------------------------------------ claims
\* a record is named << chunk number, line number >>: wire order
Earlier(a, b) == a[1] < b[1] \/ (a[1] = b[1] /\ a[2] < b[2])
InWireOrder(s) == \A i, j \in DOMAIN s : i < j => Earlier(s[i], s[j])

\* C1: during startStream at most one onEvent call is in flight at any
\* time, and the calls are started in wire order.
C1_SequentialInOrder ==
    /\ Cardinality(inflight) <= 1
    /\ InWireOrder(started)

\* C2: when stop() is called while the connector is Streaming, startStream
\* does not raise and eventually returns, and a later stop() call changes
\* no connector state.
C2_StopWhileStreaming ==
    /\ [](stopAt = "streaming" => pc # "raised" /\ thrown = NoError)
    /\ [][stopAt = "streaming" /\ Stop => UNCHANGED connVars]_vars
    /\ (stopAt = "streaming" ~> pc = "returned")

C2_Witness ==
    /\ stopAt = "streaming"
    /\ pc = "returned"
    /\ stream = Undefined
    /\ conns = 0

\* C3: after stop() has been called (here: while Streaming, so that the
\* stream was destroyed) no new onEvent call is started, neither for the
\* remaining records of a chunk being processed nor for a later chunk.
C3_NoNewEventAfterStop ==
    [][(shouldStop /\ stopAt = "streaming") => started' = started]_vars

\* C4: after stop() no physical connection remains open; a connection
\* whose request was pending when stop() was called is not left streaming.
C4_StopClosesConnection ==
    shouldStop => conns = 0 /\ stream # "open"

\* a new HTTP stream request is issued
RequestIssued == pc # "connecting" /\ pc' = "connecting"

\* C5: after stop() has been called no new HTTP stream request is issued.
C5_NoRequestAfterStop ==
    [][shouldStop => ~RequestIssued]_vars

C5_Witness ==
    /\ stopAt = "sleeping"
    /\ pc = "returned"
    /\ retryCount > 0

\* the delays of the spec's example, for n = 0 .. 5
ExampleDelays == << 1000, 2000, 4000, 8000, 16000, 32000 >>

\* C6: the delay waited before a retry is min(initialDelay * multiplier^n,
\* maxDelay), n being the number of faults since the last successful
\* connection before the current one; with 1000, 2, 60000 the delays are
\* 1000, 2000, 4000, ... and 60000 for every n >= 6.
C6_BackoffDelay ==
    pc = "sleeping" =>
        LET n == faults - 1 IN
        /\ n >= 0
        /\ delayMs = Min(initialDelayMs * Pow(backoffMultiplier, n), maxDelayMs)
        /\ (DOMAIN reconnectConfig \subseteq {"enabled", "maxRetries"} =>
               delayMs = IF n >= 6 THEN 60000 ELSE ExampleDelays[n + 1])

C6_Witness ==
    /\ pc = "sleeping"
    /\ faults - 1 >= 6
    /\ delayMs = 60000

\* C7: retryCount is 0 whenever the connector is Streaming, and the first
\* fault after a successful connection waits the delay of the very first
\* fault of a run.
C7_RetryCountResets ==
    /\ pc = "streaming" => retryCount = 0
    /\ (pc = "sleeping" /\ faults = 1) =>
           delayMs = Min(initialDelayMs, maxDelayMs)

C7_Witness ==
    /\ everConnected
    /\ error # NoError
    /\ error.id > 1
    /\ pc = "streaming"
    /\ retryCount = 0

\* C8: with maxRetries = N >= 0 and every connection attempt failing,
\* startStream raises on the (N+1)-th consecutive failed attempt, not
\* before and not after; the error raised is the fault of that attempt;
\* nothing happens after the raise.
C8_RaiseAfterMaxRetries ==
    /\ []((maxRetries >= 0 /\ ~everConnected /\ stopAt = "none") =>
            /\ faults <= maxRetries + 1
            /\ retryCount <= maxRetries
            /\ pc # "returned"
            /\ (faults = maxRetries + 1 => pc \in {"killing", "raised"})
            /\ (pc = "raised" =>
                  /\ faults = maxRetries + 1
                  /\ thrown = error
                  /\ thrown.id = faults))
    /\ [][pc = "raised" => pc' = "raised"]_vars

C8_Witness ==
    /\ maxRetries = 3
    /\ ~everConnected
    /\ stopAt = "none"
    /\ pc = "raised"
    /\ faults = 4
    /\ retryCount = 3

\* C9: with maxRetries = -1 and no stop() call startStream never raises:
\* every fault leads to Backoff and Backoff to another connection attempt.
C9_UnlimitedNeverRaises ==
    /\ []((maxRetries = -1 /\ stopAt = "none") =>
            pc # "raised" /\ thrown = NoError)
    /\ [][(maxRetries = -1 /\ stopAt' = "none") =>
            /\ (faults' = faults + 1 => pc' \in {"killing", "sleeping"})
            /\ (pc = "killing" /\ pc' # pc => pc' = "sleeping")
            /\ (pc = "sleeping" /\ pc' # pc => pc' = "connecting")]_vars

C9_Witness ==
    /\ maxRetries = -1
    /\ stopAt = "none"
    /\ ~everConnected
    /\ faults >= 5
    /\ pc = "connecting"

\* C10: after a connection attempt failed with HTTP 429 the next attempt
\* starts only when the terminate-all call has been issued and has
\* completed, successfully or not; the call is issued for 429 faults only.
C10_KillBeforeRetry ==
    /\ (pc = "connecting" /\ error.status = RateLimitStatus) =>
           killState \in {"done", "failed"}
    /\ killState = "pending" <=> pc = "killing"
    /\ killState # "none" => error.status = RateLimitStatus

C10_Witness ==
    /\ pc = "connecting"
    /\ error.status = RateLimitStatus
    /\ killState = "failed"

\* C11: a failure of the terminate-all call never leaves startStream, and
\* what follows a 429 fault (retry or raise, delay, retryCount) is the
\* same whether the call succeeded or failed.
C11_KillFailureSwallowed ==
    /\ [](thrown # NoError => thrown = error /\ thrown.status \in FaultStatuses)
    /\ [][(pc = "killing" /\ pc' # "killing") =>
            /\ killState' \in {"done", "failed"}
            /\ retryCount' = retryCount
            /\ error' = error
            /\ IF maxRetries = -1 \/ retryCount < maxRetries
               THEN /\ pc' = "sleeping"
                    /\ thrown' = NoError
                    /\ delayMs' = Min(initialDelayMs * Pow(backoffMultiplier, retryCount),
                                      maxDelayMs)
               ELSE /\ pc' = "raised"
                    /\ thrown' = error]_vars

C11_Witness ==
    /\ killState = "failed"
    /\ pc = "sleeping"
    /\ retryCount >= 1
    /\ error.status = RateLimitStatus

\* C12: a connection attempt that fails with an unauthorized response
\* (401) makes startStream raise that fault at once, without Backoff and
\* without a further attempt.
C12_UnauthorizedIsFatal ==
    (error.status = 401 /\ stopAt = "none") =>
        (pc = "raised" /\ thrown = error)

\* C13: at most one physical stream connection is open.
C13_SingleConnection == conns <= 1

C13_Witness ==
    /\ conns = 1
    /\ pc = "streaming"
    /\ stopAt = "connecting"
    /\ error # NoError

\* the open stream ends without a fault
CleanClose ==
    /\ pc = "streaming"
    /\ stream = "open"
    /\ stream' = "closed"
    /\ faults' = faults

\* C14: with reconnect disabled, when an established stream closes or
\* ends cleanly startStream returns normally and makes no further
\* connection attempt.
C14_DisabledCleanCloseReturns ==
    /\ [][(~isReconnectEnabled /\ CleanClose) =>
            (pc' = "returned" /\ thrown' = NoError)]_vars
    /\ [][pc = "returned" => pc' = "returned"]_vars

C14_Witness ==
    /\ ~isReconnectEnabled
    /\ pc = "returned"
    /\ stream = "closed"
    /\ stopAt = "none"
    /\ faults = 0
    /\ everConnected

\* C15: with the enabled flag false a connection fault or stream error
\* never leads to a Backoff wait or to a second connection attempt.
C15_NoBackoffWhenDisabled ==
    ~isReconnectEnabled =>
        /\ pc # "sleeping"
        /\ (faults > 0 => pc # "connecting")

\* the number of lines of a chunk that hold a well-formed record
RecordLines(chunk) ==
    Cardinality({ p \in DOMAIN Split(chunk) : Trim(Split(chunk)[p]) = <<"D1", "D2">> })
\* the onMessage calls started for chunk number k
StartedOf(k) == Cardinality({ i \in DOMAIN started : started[i][1] = k })
\* the handler of chunk number k is still suspended
Pending(k) == \E h \in DOMAIN handlers : Head(handlers[h])[1] = k

\* C16: a line that fails to decode is skipped without ending the
\* connection: every well-formed record of a chunk, also after a malformed
\* line, is handed to onEvent, and blank lines and records without an
\* event body cause no onEvent call.
C16_MalformedLineSkipped ==
    /\ [](\A k \in DOMAIN wire :
            /\ StartedOf(k) <= RecordLines(wire[k])
            /\ (~Pending(k) => StartedOf(k) = RecordLines(wire[k])))
    /\ [][wire' # wire => UNCHANGED connVars]_vars

C16_Witness ==
    /\ wire # << >>
    /\ wire[1] = <<"X", NL, "D1", "D2", NL>>
    /\ started = << <<1, 2>> >>
    /\ handlers = << >>
    /\ pc = "streaming"

\* the mapping table holds an enabled routing entry for the account
HasEnabledEntry(xUserId) ==
    \E i \in DOMAIN userMappings :
        userMappings[i].xUserId = xUserId /\ userMappings[i].enabled

\* C17: routeTweet calls postNote or uploadMediaFromUrl only for a message
\* that has an author id for which the mapping table holds an enabled
\* entry; without an author id, with an unmapped author or with disabled
\* entries only, the routing ends with no call made.
C17_PublishOnlyForEnabledMapping ==
    calls # << >> =>
          /\ "author_id" \in DOMAIN message.data
          /\ HasEnabledEntry(message.data.author_id)

\* a message of an account whose only entry is disabled was routed and
\* skipped
C17_Witness ==
    /\ rpc = "done"
    /\ calls = << >>
    /\ "author_id" \in DOMAIN message.data
    /\ \E i \in DOMAIN userMappings :
          userMappings[i].xUserId = message.data.author_id
    /\ ~HasEnabledEntry(message.data.author_id)

\* the id of the post a list of references replies to, "" if none
RepliedToId(refs) ==
    LET S == { i \in DOMAIN refs : refs[i].type = "replied_to" } IN
    IF S = {} THEN "" ELSE refs[CHOOSE i \in S : \A j \in S : i <= j].id

\* some post on the replied-to lineage that starts at refs, as far as the
\* posts of the thread resolve it, has an author other than `author`
RECURSIVE MixedLineage(_, _, _, _)
MixedLineage(refs, author, posts, fuel) ==
    LET found == { p \in posts : p.id = RepliedToId(refs) } IN
    IF fuel = 0 \/ found = {} THEN FALSE
    ELSE LET parent == CHOOSE p \in found : TRUE IN
         \/ parent.author_id # author
         \/ MixedLineage(parent.referenced_tweets, author, posts, fuel - 1)

\* the routed message is a reply with a conversation id, of an account
\* that is routed
RoutedReply ==
    /\ rpc # "idle"
    /\ SkipReason(message) = "none"
    /\ "conversation_id" \in DOMAIN message.data
    /\ "referenced_tweets" \in DOMAIN message.data

\* C18: a reply with a conversation id is skipped, no postNote call made,
\* when some post on its replied-to lineage found in the thread has another
\* author than the reply, and is published when every post on that lineage
\* has the author of the reply.
C18_MixedReplyChainSkipped ==
    RoutedReply =>
        IF MixedLineage(message.data.referenced_tweets, message.data.author_id,
                        thread, Cardinality(thread))
        THEN calls = << >>
        ELSE \E i \in DOMAIN calls : calls[i].op = "postNote"

\* the URL entities of the routed message that carry a media key
MediaKeyUrls ==
    { UrlsOf(message)[i] : i \in { j \in DOMAIN UrlsOf(message) :
                                     "media_key" \in DOMAIN UrlsOf(message)[j] } }

\* a message of a routed account has got its note content
Routed == rpc # "idle" /\ SkipReason(message) = "none"

\* C19: the note content holds, for a URL entity with a media key, neither
\* the raw token nor a link built from it, wherever the token stood in the
\* text.
C19_MediaTokenDeleted ==
    Routed =>
        \A e \in MediaKeyUrls : \A i \in DOMAIN noteContent :
            noteContent[i] \notin {e.url, DisplayOf(e), ExpandedOf(e)}

\* every token of the text that is the raw token of an entity replaced by
\* the link of the first such entity, in one pass
RECURSIVE LinkEach(_, _)
LinkEach(text, urls) ==
    IF text = << >> THEN << >>
    ELSE LET S == { i \in DOMAIN urls : urls[i].url = Head(text) } IN
         (IF S = {} THEN << Head(text) >>
          ELSE LET e == urls[CHOOSE i \in S : \A j \in S : i <= j] IN
               Link(DisplayOf(e), ExpandedOf(e)))
         \o LinkEach(Tail(text), urls)

\* every link token of the text is the raw token of some URL entity
AllLinksHaveEntity ==
    \A i \in DOMAIN message.data.text :
        message.data.text[i] \in TcoUrls =>
            \E j \in DOMAIN UrlsOf(message) :
                UrlsOf(message)[j].url = message.data.text[i]

\* C20: when no URL entity of the message carries a media key and every
\* link of the text has its entity, the note content is the text with
\* every occurrence of an entity's raw token turned into the link
\* [displayUrl, else expandedUrl, else the token](expandedUrl, else the
\* token), trimmed and with the HTML entities decoded, followed by the line
\* of the original post.
C20_UrlTokenBecomesLink ==
    (Routed /\ MediaKeyUrls = {} /\ AllLinksHaveEntity) =>
        noteContent = Unescape(Trim(LinkEach(message.data.text, UrlsOf(message))))
                      \o OriginalLine(message)

\* includes.media of the routed message
MediaOf(m) ==
    IF "includes" \in DOMAIN m /\ "media" \in DOMAIN m.includes
    THEN m.includes.media ELSE << >>

\* the MP4 variants of a media item, in encounter order
Mp4Variants(media) ==
    IF "variants" \in DOMAIN media
    THEN SelectSeq(media.variants, LAMBDA v : v.content_type = "video/mp4")
    ELSE << >>

\* the first of the variants with the highest bit rate
BestVariant(variants) ==
    LET top == CHOOSE i \in DOMAIN variants :
                  /\ \A j \in DOMAIN variants :
                        variants[j].bit_rate <= variants[i].bit_rate
                  /\ \A j \in 1 .. i - 1 :
                        variants[j].bit_rate < variants[i].bit_rate
    IN variants[top]

\* the URLs of the uploadMediaFromUrl calls made for the message
UploadedUrls ==
    { calls[i].url : i \in { j \in DOMAIN calls :
                               calls[j].op = "uploadMediaFromUrl" } }

\* the postNote calls made for the message
PostCalls == { i \in DOMAIN calls : calls[i].op = "postNote" }

\* C21: when the routing of a message is over, the MP4 variant with the
\* highest bit rate, the first one on ties, of every video attachment has
\* been uploaded; nothing has been uploaded for a video without MP4 variant
\* or for an attachment that is neither photo nor video, and postNote has
\* been called all the same.
C21_VideoBestVariantUploaded ==
    (Routed /\ rpc = "done") =>
        /\ \A i \in DOMAIN MediaOf(message) :
              LET media == MediaOf(message)[i] IN
              /\ (media.type = "video" /\ Mp4Variants(media) # << >>)
                    => BestVariant(Mp4Variants(media)).url \in UploadedUrls
              /\ (media.type = "video" /\ Mp4Variants(media) = << >>
                  /\ "variants" \in DOMAIN media)
                    => \A k \in DOMAIN media.variants :
                          media.variants[k].url \notin UploadedUrls
        /\ PostCalls # {}

\* the file ids among the results of the uploads, in the order of the calls
Succeeded == SelectSeq(results, LAMBDA fileId : fileId # "null")

\* C22: once the uploads of a routed message are over, whatever number of
\* them failed, every photo has been tried in the order of the attachments,
\* postNote has been called, and its fileIds are exactly the ids the
\* uploads returned, in that order, the member being absent when no upload
\* succeeded.
C22_PartialUploadsStillPublished ==
    (Routed /\ rpc \in {"posting", "done"}) =>
        /\ Len(results) = Len(PhotoItems(message))
        /\ \A i \in DOMAIN results :
              /\ calls[i].op = "uploadMediaFromUrl"
              /\ calls[i].url = PhotoItems(message)[i].url
        /\ PostCalls # {}
        /\ \A i \in PostCalls :
              IF Succeeded = << >>
              THEN "fileIds" \notin DOMAIN calls[i].options
              ELSE /\ "fileIds" \in DOMAIN calls[i].options
                   /\ calls[i].options.fileIds = Succeeded

\* the first of two uploads failed, the second one succeeded, and the note
\* was posted with the one file
C22_Witness ==
    /\ rpc = "done"
    /\ results = << "null", "f2" >>
    /\ \E i \in PostCalls : calls[i].options = [visibility |-> "public",
                                                fileIds |-> << "f2" >>]

\* C23: routeTweet calls postNote at most once per message; when it has
\* returned, it has called postNote exactly once for a message that passed
\* the skip decisions, also when that call was rejected, and not at all for
\* a skipped message.
C23_PublishExactlyOnce ==
    /\ Cardinality(PostCalls) <= 1
    /\ (rpc = "done") =>
          Cardinality(PostCalls) = IF SkipReason(message) = "none" THEN 1 ELSE 0
    /\ (caught # "none") => (rpc = "done" /\ Cardinality(PostCalls) = 1)

\* postNote was rejected and routeTweet has returned after the one call
C23_Witness ==
    /\ rpc = "done"
    /\ caught = "postNote"
    /\ Cardinality(PostCalls) = 1

\* C24: a failure while a message is routed stays inside routeTweet and
\* leaves the stream alone: routeTweet never rejects; no step of the
\* routing, a failed upload or a rejected postNote included, changes the
\* state of the connection or retryCount; and when routeTweet has returned
\* the handler goes on to the next record of its chunk.
C24_RoutingFailureContained ==
    /\ [](rpc # "rejected")
    /\ [][routerVars' # routerVars => UNCHANGED connVars]_vars
    /\ [][(rpc = "done" /\ rpc' = "idle" /\ Len(handlers[1]) > 1)
             => started' = Append(started, handlers[1][2])]_vars

\* postNote was rejected for a record while the stream is open and a later
\* record of the same chunk waits
C24_Witness ==
    /\ rpc = "done"
    /\ caught = "postNote"
    /\ pc = "streaming"
    /\ stream = "open"
    /\ retryCount = 0
    /\ handlers # << >>
    /\ Len(handlers[1]) > 1

\* the text ends with the given tokens
EndsWith(text, suffix) ==
    /\ Len(text) >= Len(suffix)
    /\ SubSeq(text, Len(text) - Len(suffix) + 1, Len(text)) = suffix

\* the line that refers to https://x.com/<handle>/status/<id>
FooterOf(handle, id) ==
    << NL, NL, "Original: ?[", "https://x.com/", handle, "/status/", id, "](",
       "https://x.com/", handle, "/status/", id, ")" >>

\* C25: the text of every postNote call ends with the line that refers to
\* the URL of the original post, built from the author handle and the id of
\* the message, also when the cleaned text before it is empty.
C25_FooterAlwaysPresent ==
    \A i \in PostCalls :
        EndsWith(calls[i].text, FooterOf(AuthorHandle(message), message.data.id))

\* a note was posted whose text is the line alone
C25_Witness ==
    /\ rpc = "done"
    /\ message.data.text # << >>
    /\ \E i \in PostCalls :
          calls[i].text = FooterOf(AuthorHandle(message), message.data.id)

\* C26: with reconnect enabled and no stop requested, when an established
\* stream closes or ends without a fault the client waits a backoff delay
\* before it connects again; it never goes from Streaming straight to the
\* next connection attempt.
C26_CleanCloseBacksOff ==
    [][(isReconnectEnabled /\ ~shouldStop /\ CleanClose) =>
          (pc' = "sleeping" /\ pc' # "connecting")]_vars

\* the three entities replaced in one pass over the text, what a
\* replacement produces not being read again
RECURSIVE UnescapeOnce(_)
UnescapeOnce(text) ==
    IF text = << >> THEN << >>
    ELSE IF Len(text) >= 2 /\ text[1] = "&" /\ text[2] \in {"amp;", "lt;", "gt;"}
         THEN << CASE text[2] = "amp;" -> "&"
                   [] text[2] = "lt;" -> "<"
                   [] text[2] = "gt;" -> ">" >>
              \o UnescapeOnce(SubSeq(text, 3, Len(text)))
         ELSE << Head(text) >> \o UnescapeOnce(Tail(text))

\* the text of the routed message before the HTML entities are decoded
BeforeUnescape ==
    Trim(ReplaceUrls(IF "attachments" \in DOMAIN message.data
                     THEN StripTrailingLink(message.data.text)
                     ELSE message.data.text,
                     UrlsOf(message), 1))

\* C27: the note content holds the text with every occurrence of &amp;,
\* &lt; and &gt; decoded exactly once, as by one simultaneous replacement
\* of the three: "&amp;lt;" gives "&lt;", not "<".
C27_NoDoubleUnescape ==
    Routed => noteContent = UnescapeOnce(BeforeUnescape) \o OriginalLine(message)

\* the posts of the first n pages, in page order
RECURSIVE Concat(_, _)
Concat(ps, n) ==
    IF n = 0 THEN << >> ELSE Concat(ps, n - 1) \o TweetsOf(ps[n])

\* C28: getConversationTweets requests page after page, each with the
\* token of the response before, until a response has no token, and then
\* returns the posts of all pages in page order; when a request fails it
\* returns, without raising, the posts of the pages received before.
C28_DrainsAllPages ==
    /\ cpc # "raised"
    /\ \A i \in DOMAIN requested : requested[i] = IF i = 1 THEN 0 ELSE i
    /\ (cpc = "returned" /\ convError = "none") =>
          /\ Len(requested) = Len(pages)
          /\ allTweets = Concat(pages, Len(pages))
    /\ (cpc = "returned" /\ convError # "none") =>
          allTweets = Concat(pages, Len(requested) - 1)

\* three pages were fetched and their posts returned
C28_Witness ==
    /\ cpc = "returned"
    /\ convError = "none"
    /\ Len(pages) >= 3
    /\ allTweets = << "p1", "p2", "p3", "p1" >>

\* the bytes of the first n chunks, one after the other
RECURSIVE Bytes(_, _)
Bytes(chunks, n) ==
    IF n = 0 THEN << >> ELSE Bytes(chunks, n - 1) \o chunks[n]

\* C29: what is delivered depends on the bytes of the stream only: when
\* the bytes received so far end with a line separator and every handler
\* has finished, onMessage has been called once for every line of these
\* bytes that holds a record, however the transport cut the bytes into
\* chunks.
C29_ChunkingIndependent ==
    (/\ wire # << >>
     /\ handlers = << >>
     /\ Bytes(wire, Len(wire))[Len(Bytes(wire, Len(wire)))] = NL)
        => Len(started) = RecordLines(Bytes(wire, Len(wire)))

\* C30: with a finite maxRetries = N >= 0, retryCount stays within 0 .. N,
\* and startStream raises only with retryCount = N, after N + 1 faults
\* since the last successful connection, a connection that succeeded having
\* restarted the count.
C30_RetryCountBounded ==
    maxRetries >= 0 =>
        /\ retryCount \in 0 .. maxRetries
        /\ (pc = "raised" =>
              /\ retryCount = maxRetries
              /\ faults = maxRetries + 1)

\* startStream raised after a connection that had succeeded
C30_Witness ==
    /\ maxRetries = 3
    /\ everConnected
    /\ pc = "raised"
    /\ retryCount = 3

\* includes.users of a message
UsersOf(m) ==
    IF "includes" \in DOMAIN m /\ "users" \in DOMAIN m.includes
    THEN m.includes.users ELSE << >>

\* the line of the original post in the text of a postNote call is built
\* from the given handle
FooterHandleIs(handle) ==
    \A i \in PostCalls : EndsWith(calls[i].text, FooterOf(handle, message.data.id))

\* C31: the handle in the URL of the original post is the username of the
\* user of includes.users whose id is the author id of the message,
\* wherever that user stands in the list, and never the username of a user
\* with another id.
C31_FooterHandleIsAuthors ==
    Routed =>
        \A k \in DOMAIN UsersOf(message) :
            IF UsersOf(message)[k].id = message.data.author_id
            THEN FooterHandleIs(UsersOf(message)[k].username)
            ELSE ~FooterHandleIs(UsersOf(message)[k].username)

====
